---- MODULE Spec2Model ----
(***************************************************************************)
(* A model of validate_config.py: the schema models declared with          *)
(* pydantic, the validation pydantic performs on a parsed YAML document    *)
(* (lax mode, extra = "forbid", the model validators of AIIntegration and  *)
(* CustomGearModel), the error display (get_value_by_path,                 *)
(* print_friendly_errors) and the runner (validate_yaml_config, __main__). *)
(***************************************************************************)
EXTENDS Integers, Sequences, FiniteSets, TLC

(***************************************************************************)
(* Value tree: what yaml.load returns.  Every node is a tagged record.     *)
(* A map keeps its keys in document order as a sequence of key/value       *)
(* pairs with pairwise different string keys.  A float is its integer part *)
(* and whether it has a fractional part.                                   *)
(***************************************************************************)
VNull == [t |-> "null"]
VBool(b) == [t |-> "bool", b |-> b]
VInt(n) == [t |-> "int", n |-> n]
VFloat(n, frac) == [t |-> "float", n |-> n, frac |-> frac]
VStr(s) == [t |-> "str", s |-> s]
VList(items) == [t |-> "list", items |-> items]
VMap(kv) == [t |-> "map", kv |-> kv]
KV(k, v) == [k |-> k, v |-> v]

\* A path segment: a field name or a 0-based sequence index.
SegName(s) == [k |-> "name", v |-> s]
SegIdx(i) == [k |-> "idx", v |-> i]

Keys(m) == {m.kv[i].k : i \in 1..Len(m.kv)}
HasKey(m, k) == k \in Keys(m)
Get(m, k) == m.kv[CHOOSE i \in 1..Len(m.kv) : m.kv[i].k = k].v
Put(m, k, v) == VMap([i \in 1..Len(m.kv) |-> IF m.kv[i].k = k THEN KV(k, v) ELSE m.kv[i]])

RECURSIVE SeqWithout(_, _)
SeqWithout(kv, k) ==
    IF kv = <<>> THEN <<>>
    ELSE IF Head(kv).k = k THEN SeqWithout(Tail(kv), k)
    ELSE <<Head(kv)>> \o SeqWithout(Tail(kv), k)

\* dict.pop(key, None): the map without the key, unchanged when it has none.
Pop(m, k) == VMap(SeqWithout(m.kv, k))

\* Python truthiness of a node, as `not values.get('enabled', False)` reads it.
Truthy(v) ==
    CASE v.t = "null" -> FALSE
      [] v.t = "bool" -> v.b
      [] v.t = "int" -> v.n # 0
      [] v.t = "float" -> v.n # 0 \/ v.frac
      [] v.t = "str" -> v.s # ""
      [] v.t = "list" -> v.items # <<>>
      [] v.t = "map" -> v.kv # <<>>

(***************************************************************************)
(* Scalar validation in pydantic's lax mode.  Each operator gives the      *)
(* error type, or "ok".                                                    *)
(***************************************************************************)
\* The strings of the model that parse as an integer literal.
IntStrings == {"0", "1", "70"}
BoolTrueStrings == {"1", "on", "t", "true", "y", "yes"}
BoolFalseStrings == {"0", "off", "f", "false", "n", "no"}
\* The strings of the model that are http(s) URLs.
UrlStrings == {"http://localhost:8080"}

str_schema(v) == IF v.t = "str" THEN "ok" ELSE "string_type"

int_schema(v) ==
    CASE v.t \in {"int", "bool"} -> "ok"
      [] v.t = "float" -> IF v.frac THEN "int_from_float" ELSE "ok"
      [] v.t = "str" -> IF v.s \in IntStrings THEN "ok" ELSE "int_parsing"
      [] OTHER -> "int_type"

float_schema(v) ==
    CASE v.t \in {"float", "int", "bool"} -> "ok"
      [] v.t = "str" -> IF v.s \in IntStrings THEN "ok" ELSE "float_parsing"
      [] OTHER -> "float_type"

bool_schema(v) ==
    CASE v.t = "bool" -> "ok"
      [] v.t = "int" -> IF v.n \in {0, 1} THEN "ok" ELSE "bool_parsing"
      [] v.t = "float" -> IF v.n \in {0, 1} /\ ~v.frac THEN "ok" ELSE "bool_parsing"
      [] v.t = "str" -> IF v.s \in BoolTrueStrings \cup BoolFalseStrings
                        THEN "ok" ELSE "bool_parsing"
      [] OTHER -> "bool_type"

\* The bool a valid input of a bool field becomes.
CoerceBool(v) ==
    CASE v.t = "bool" -> v.b
      [] v.t \in {"int", "float"} -> v.n = 1
      [] v.t = "str" -> v.s \in BoolTrueStrings

url_schema(v) ==
    IF v.t # "str" THEN "url_type"
    ELSE IF v.s \in UrlStrings THEN "ok" ELSE "url_parsing"

literal_schema(allowed, v) == IF v \in allowed THEN "ok" ELSE "literal_error"

(***************************************************************************)
(* Schema descriptors: what the type annotations of the models declare.    *)
(***************************************************************************)
TStr == [t |-> "str"]
TInt == [t |-> "int"]
TFloat == [t |-> "float"]
TBool == [t |-> "bool"]
TAny == [t |-> "any"]
TLiteral(allowed) == [t |-> "literal", allowed |-> allowed]
TOptional(s) == [t |-> "nullable", of |-> s]
TList(s) == [t |-> "list", of |-> s]
TDict(s) == [t |-> "dict", of |-> s]
\* alts: the alternatives in declaration order, each with the tag pydantic
\* appends to the location of the errors of that alternative.
TUnion(alts) == [t |-> "union", alts |-> alts]
Alt(tag, s) == [tag |-> tag, s |-> s]
\* A field: its key in the input (the alias when one is declared), its type
\* and whether the input must hold it (no default).
Field(alias, s, required) == [alias |-> alias, s |-> s, required |-> required]
Model(name, fields, extra) ==
    [t |-> "model", name |-> name, fields |-> fields, extra |-> extra]

\* --- config.yaml models ---
Locale == TLiteral({VStr("en_US"), VStr("fr_FR"), VStr("it_IT"), VStr("nl_BE"),
                    VStr("de_DE"), VStr("pt_BR"), VStr("pt_PT"), VStr("zh_CN")})
UnitSystem == TLiteral({VStr("metric"), VStr("imperial")})
TimeFormat == TLiteral({VInt(12), VInt(24)})
Visibility == TLiteral({VStr("everyone"), VStr("followers_only"), VStr("only_me")})
HeartRateMode == TLiteral({VStr("relative"), VStr("absolute")})
AIProvider == TLiteral({VStr("anthropic"), VStr("gemini"), VStr("ollama"),
                        VStr("openAI"), VStr("deepseek"), VStr("mistral")})
HttpUrl == [t |-> "url"]

Zone == Model("Zone", <<
    Field("from", TInt, TRUE),
    Field("to", TOptional(TInt), TRUE) >>, "forbid")

HeartRateZones == Model("HeartRateZones", <<
    Field("mode", HeartRateMode, TRUE),
    Field("default", TDict(Zone), TRUE) >>, "forbid")

Athlete == Model("Athlete", <<
    Field("birthday", TStr, TRUE),
    Field("maxHeartRateFormula",
          TUnion(<<Alt("str", TStr), Alt("dict[str,int]", TDict(TInt))>>), TRUE),
    Field("heartRateZones", HeartRateZones, TRUE),
    Field("weightHistory",
          TDict(TUnion(<<Alt("int", TInt), Alt("float", TFloat)>>)), TRUE),
    Field("ftpHistory", TList(TInt), TRUE) >>, "forbid")

General == Model("General", <<
    Field("appUrl", HttpUrl, TRUE),
    Field("appSubTitle", TOptional(TStr), TRUE),
    Field("profilePictureUrl", TOptional(TStr), TRUE),
    Field("ntfyUrl", TOptional(TStr), TRUE),
    Field("athlete", Athlete, TRUE) >>, "forbid")

DateFormat == Model("DateFormat", <<
    Field("short", TStr, TRUE),
    Field("normal", TStr, TRUE) >>, "forbid")

Appearance == Model("Appearance", <<
    Field("locale", Locale, TRUE),
    Field("unitSystem", UnitSystem, TRUE),
    Field("timeFormat", TimeFormat, TRUE),
    Field("dateFormat", DateFormat, TRUE),
    Field("sportTypesSortingOrder", TList(TStr), TRUE) >>, "forbid")

ImportSettings == Model("ImportSettings", <<
    Field("numberOfNewActivitiesToProcessPerImport", TInt, TRUE),
    Field("sportTypesToImport", TList(TStr), TRUE),
    Field("activityVisibilitiesToImport", TList(Visibility), TRUE),
    Field("skipActivitiesRecordedBefore", TOptional(TStr), TRUE),
    Field("activitiesToSkipDuringImport", TList(TStr), TRUE) >>, "forbid")

EddingtonEntry == Model("EddingtonEntry", <<
    Field("label", TStr, TRUE),
    Field("showInNavBar", TBool, TRUE),
    Field("sportTypesToInclude", TList(TStr), TRUE) >>, "forbid")

Metrics == Model("Metrics", <<
    Field("eddington", TList(EddingtonEntry), TRUE),
    Field("consistencyChallenges", TList(TAny), TRUE) >>, "forbid")

Zwift == Model("Zwift", <<
    Field("level", TOptional(TInt), TRUE),
    Field("racingScore", TOptional(TInt), TRUE) >>, "forbid")

AIConfiguration == Model("AIConfiguration", <<
    Field("key", TStr, TRUE),
    Field("model", TStr, TRUE),
    Field("url", TOptional(TStr), TRUE) >>, "forbid")

\* provider and configuration default to None: the input need not hold them.
AIIntegration == Model("AIIntegration", <<
    Field("enabled", TBool, TRUE),
    Field("enableUI", TBool, TRUE),
    Field("provider", TOptional(AIProvider), FALSE),
    Field("configuration", TOptional(AIConfiguration), FALSE) >>, "forbid")

Integrations == Model("Integrations", <<
    Field("ai", AIIntegration, TRUE) >>, "forbid")

ConfigModel == Model("ConfigModel", <<
    Field("general", General, TRUE),
    Field("appearance", Appearance, TRUE),
    Field("import", ImportSettings, TRUE),
    Field("metrics", Metrics, TRUE),
    Field("zwift", Zwift, TRUE),
    Field("integrations", Integrations, TRUE) >>, "forbid")

\* --- custom-gear.yaml models ---
CustomGearEntry == Model("CustomGearEntry", <<
    Field("tag", TStr, TRUE),
    Field("label", TStr, TRUE),
    Field("isRetired", TBool, TRUE) >>, "forbid")

CustomGearModel == Model("CustomGearModel", <<
    Field("enabled", TBool, TRUE),
    Field("hashtagPrefix", TStr, TRUE),
    Field("customGears", TList(CustomGearEntry), TRUE) >>, "forbid")

\* --- gear-maintenance.yaml models ---
MaintenanceInterval == Model("MaintenanceInterval", <<
    Field("value", TInt, TRUE),
    Field("unit", TStr, TRUE) >>, "forbid")

MaintenanceTask == Model("MaintenanceTask", <<
    Field("tag", TStr, TRUE),
    Field("label", TStr, TRUE),
    Field("interval", MaintenanceInterval, TRUE) >>, "forbid")

Component == Model("Component", <<
    Field("tag", TStr, TRUE),
    Field("label", TStr, TRUE),
    Field("imgSrc", TOptional(TStr), TRUE),
    Field("attachedTo", TList(TStr), TRUE),
    Field("maintenance", TList(MaintenanceTask), TRUE) >>, "forbid")

GearImage == Model("GearImage", <<
    Field("gearId", TStr, TRUE),
    Field("imgSrc", TOptional(TStr), TRUE) >>, "forbid")

GearMaintenanceModel == Model("GearMaintenanceModel", <<
    Field("enabled", TBool, TRUE),
    Field("hashtagPrefix", TStr, TRUE),
    Field("components", TList(Component), TRUE),
    Field("gears", TList(GearImage), TRUE) >>, "forbid")

(***************************************************************************)
(* Validation: model_class.model_validate(data).  A result holds the       *)
(* errors in pydantic's order, the input as the model validators left it   *)
(* (a 'before' validator receives the input object itself, so what it pops *)
(* is popped from the caller's tree), and the exception that escaped, if   *)
(* one did ("" for none).                                                  *)
(***************************************************************************)
Error(loc, type, msg) == [loc |-> loc, type |-> type, msg |-> msg]
Result(errs, data, exc) == [errs |-> errs, data |-> data, exc |-> exc]
Leaf(kind, v, loc) ==
    IF kind = "ok" THEN Result(<<>>, v, "")
    ELSE Result(<<Error(loc, kind, kind)>>, v, "")

\* AIIntegration.skip_nested_if_disabled (mode='before')
AIIntegration_skip_nested_if_disabled(values) ==
    IF values.t # "map" THEN Result(<<>>, values, "AttributeError")
    ELSE IF ~(IF HasKey(values, "enabled") THEN Truthy(Get(values, "enabled")) ELSE FALSE)
         THEN Result(<<>>, Pop(Pop(values, "provider"), "configuration"), "")
         ELSE Result(<<>>, values, "")

\* CustomGearModel.skip_nested_if_disabled (mode='before')
CustomGearModel_skip_nested_if_disabled(values) ==
    IF values.t # "map" THEN Result(<<>>, values, "AttributeError")
    ELSE IF ~(IF HasKey(values, "enabled") THEN Truthy(Get(values, "enabled")) ELSE FALSE)
         THEN Result(<<>>, Pop(Pop(values, "hashtagPrefix"), "customGears"), "")
         ELSE Result(<<>>, values, "")

BeforeValidator(name, values) ==
    CASE name = "AIIntegration" -> AIIntegration_skip_nested_if_disabled(values)
      [] name = "CustomGearModel" -> CustomGearModel_skip_nested_if_disabled(values)
      [] OTHER -> Result(<<>>, values, "")

\* An attribute of the validated instance is None when the input has no such
\* key (the default) or holds null.
IsNoneAttr(values, name) ==
    ~HasKey(values, name) \/ Get(values, name).t = "null"

\* AIIntegration.check_required_if_enabled (mode='after'): the message of
\* the ValueError raised, "" when none is.
AIIntegration_check_required_if_enabled(values) ==
    IF CoerceBool(Get(values, "enabled"))
    THEN IF IsNoneAttr(values, "provider")
         THEN "provider is required when AI integration is enabled"
         ELSE IF IsNoneAttr(values, "configuration")
         THEN "configuration is required when AI integration is enabled"
         ELSE ""
    ELSE ""

\* CustomGearModel.check_required_if_enabled (mode='after')
CustomGearModel_check_required_if_enabled(values) ==
    IF CoerceBool(Get(values, "enabled"))
    THEN IF IsNoneAttr(values, "hashtagPrefix")
         THEN "hashtagPrefix is required when custom gear is enabled"
         ELSE IF IsNoneAttr(values, "customGears")
         THEN "customGears is required when custom gear is enabled"
         ELSE ""
    ELSE ""

\* A ValueError of an 'after' validator becomes one value_error at the
\* location of the model.
AfterValidator(name, values, loc) ==
    LET msg == CASE name = "AIIntegration" ->
                        AIIntegration_check_required_if_enabled(values)
                 [] name = "CustomGearModel" ->
                        CustomGearModel_check_required_if_enabled(values)
                 [] OTHER -> ""
    IN  IF msg = "" THEN <<>> ELSE <<Error(loc, "value_error", msg)>>

Aliases(s) == {s.fields[i].alias : i \in 1..Len(s.fields)}

\* extra = "forbid": one extra_forbidden per input key that is no field, in
\* input order.
RECURSIVE ExtraForbidden(_, _, _, _)
ExtraForbidden(s, kv, loc, j) ==
    IF j > Len(kv) THEN <<>>
    ELSE (IF kv[j].k \in Aliases(s) THEN <<>>
          ELSE <<Error(loc \o <<SegName(kv[j].k)>>, "extra_forbidden", "extra_forbidden")>>)
         \o ExtraForbidden(s, kv, loc, j + 1)

Extras(s, values, loc) ==
    IF s.extra = "forbid" THEN ExtraForbidden(s, values.kv, loc, 1) ELSE <<>>

RECURSIVE Validate(_, _, _)
RECURSIVE ValidateFields(_, _, _, _)
RECURSIVE ValidateItems(_, _, _, _)
RECURSIVE ValidateValues(_, _, _, _)
RECURSIVE ValidateUnion(_, _, _, _)

\* The fields from the i-th on, in declaration order, over the map acc.data.
ValidateFields(s, loc, i, acc) ==
    IF i > Len(s.fields) \/ acc.exc # "" THEN acc
    ELSE LET f == s.fields[i] IN
         IF HasKey(acc.data, f.alias)
         THEN LET r == Validate(f.s, Get(acc.data, f.alias), loc \o <<SegName(f.alias)>>)
              IN  ValidateFields(s, loc, i + 1,
                      Result(acc.errs \o r.errs, Put(acc.data, f.alias, r.data), r.exc))
         ELSE IF f.required
         THEN ValidateFields(s, loc, i + 1,
                  Result(Append(acc.errs,
                                Error(loc \o <<SegName(f.alias)>>, "missing", "Field required")),
                         acc.data, ""))
         ELSE ValidateFields(s, loc, i + 1, acc)

\* The fields of a model, then its extra keys.
ModelFields(s, values, loc) ==
    IF values.t # "map"
    THEN Result(<<Error(loc, "model_type", "model_type")>>, values, "")
    ELSE LET r == ValidateFields(s, loc, 1, Result(<<>>, values, ""))
         IN  IF r.exc # "" THEN r
             ELSE Result(r.errs \o Extras(s, values, loc), r.data, "")

\* A model: its 'before' validator, its fields, and its 'after' validator
\* when the fields raised nothing.
ValidateModel(s, v, loc) ==
    LET b == BeforeValidator(s.name, v) IN
    IF b.exc # "" THEN b
    ELSE LET r == ModelFields(s, b.data, loc) IN
         IF r.exc # "" \/ r.errs # <<>> THEN r
         ELSE Result(AfterValidator(s.name, r.data, loc), r.data, "")

\* The items of a list from the i-th on; locations are 0-based.
ValidateItems(s, loc, i, acc) ==
    IF i > Len(acc.data.items) \/ acc.exc # "" THEN acc
    ELSE LET r == Validate(s, acc.data.items[i], loc \o <<SegIdx(i - 1)>>)
         IN  ValidateItems(s, loc, i + 1,
                 Result(acc.errs \o r.errs,
                        VList([acc.data.items EXCEPT ![i] = r.data]), r.exc))

\* The values of a dict from the i-th on, in input order.
ValidateValues(s, loc, i, acc) ==
    IF i > Len(acc.data.kv) \/ acc.exc # "" THEN acc
    ELSE LET e == acc.data.kv[i]
             r == Validate(s, e.v, loc \o <<SegName(e.k)>>)
         IN  ValidateValues(s, loc, i + 1,
                 Result(acc.errs \o r.errs, Put(acc.data, e.k, r.data), r.exc))

\* The errors of the alternatives of a union from the i-th on, each under
\* the tag of its alternative.
ValidateUnion(alts, v, loc, i) ==
    IF i > Len(alts) THEN <<>>
    ELSE Validate(alts[i].s, v, loc \o <<SegName(alts[i].tag)>>).errs
         \o ValidateUnion(alts, v, loc, i + 1)

\* A union passes when an alternative does; when none does, pydantic
\* reports the errors of every alternative.
UnionSchema(alts, v, loc) ==
    IF \E i \in 1..Len(alts) : Validate(alts[i].s, v, loc).errs = <<>>
    THEN Result(<<>>, v, "")
    ELSE Result(ValidateUnion(alts, v, loc, 1), v, "")

Validate(s, v, loc) ==
    CASE s.t = "str" -> Leaf(str_schema(v), v, loc)
      [] s.t = "int" -> Leaf(int_schema(v), v, loc)
      [] s.t = "float" -> Leaf(float_schema(v), v, loc)
      [] s.t = "bool" -> Leaf(bool_schema(v), v, loc)
      [] s.t = "url" -> Leaf(url_schema(v), v, loc)
      [] s.t = "literal" -> Leaf(literal_schema(s.allowed, v), v, loc)
      [] s.t = "any" -> Result(<<>>, v, "")
      [] s.t = "nullable" ->
            IF v.t = "null" THEN Result(<<>>, v, "") ELSE Validate(s.of, v, loc)
      [] s.t = "list" ->
            IF v.t # "list" THEN Leaf("list_type", v, loc)
            ELSE ValidateItems(s.of, loc, 1, Result(<<>>, v, ""))
      [] s.t = "dict" ->
            IF v.t # "map" THEN Leaf("dict_type", v, loc)
            ELSE ValidateValues(s.of, loc, 1, Result(<<>>, v, ""))
      [] s.t = "union" -> UnionSchema(s.alts, v, loc)
      [] s.t = "model" -> ValidateModel(s, v, loc)

(***************************************************************************)
(* Error display                                                           *)
(***************************************************************************)
\* Each key of FIELD_HELP with its 'doc'.
FIELD_HELP ==
    [k \in {"general.appUrl", "general.athlete.birthday",
            "general.athlete.maxHeartRateFormula", "general.athlete.weightHistory",
            "appearance.locale", "import.numberOfNewActivitiesToProcessPerImport",
            "metrics.eddington", "integrations.ai.provider",
            "custom-gear.name", "custom-gear.stravaGearId", "custom-gear.weight",
            "custom-gear.default", "gear-maintenance.stravaGearId",
            "gear-maintenance.maintenanceDistance", "gear-maintenance.resetDistance"} |->
        CASE k = "general.athlete.maxHeartRateFormula" ->
                 "main-configuration?id=athlete-heart-rate-zones"
          [] k = "general.athlete.weightHistory" ->
                 "main-configuration?id=athlete-weight-history"
          [] k = "integrations.ai.provider" -> "ai-integration"
          [] k \in {"custom-gear.name", "custom-gear.stravaGearId", "custom-gear.weight",
                    "custom-gear.default"} -> "custom-gear"
          [] k \in {"gear-maintenance.stravaGearId", "gear-maintenance.maintenanceDistance",
                    "gear-maintenance.resetDistance"} -> "gear-maintenance"
          [] OTHER -> "main-configuration"]

DOC_BASE_URL == "https://statistics-for-strava-docs.robiningelbrecht.be/#/configuration/"

NOT_FOUND == VStr("<value not found>")

\* str(p) of a segment
SegStr(p) == IF p.k = "idx" THEN ToString(p.v) ELSE p.v

\* ".".join(str(p) for p in loc_path)
RECURSIVE LocStr(_)
LocStr(loc) ==
    IF loc = <<>> THEN ""
    ELSE IF Len(loc) = 1 THEN SegStr(loc[1])
    ELSE SegStr(loc[1]) \o "." \o LocStr(Tail(loc))

\* The step without `0 <= key`: a negative index counts from the end.
get_value_by_path_step_negative(d, key) ==
    IF d.t = "map" /\ key.k = "name" /\ HasKey(d, key.v)
    THEN [found |-> TRUE, data |-> Get(d, key.v)]
    ELSE IF d.t = "list" /\ key.k = "idx" /\ key.v < Len(d.items) /\ -key.v <= Len(d.items)
    THEN [found |-> TRUE,
          data |-> d.items[IF key.v >= 0 THEN key.v + 1 ELSE Len(d.items) + key.v + 1]]
    ELSE [found |-> FALSE, data |-> NOT_FOUND]

\* One iteration of the loop of get_value_by_path: the node the key leads to
\* from data, or found = FALSE when the function returns the sentinel.
get_value_by_path_step(d, key) ==
    IF d.t = "map" /\ key.k = "name" /\ HasKey(d, key.v)
    THEN [found |-> TRUE, data |-> Get(d, key.v)]
    ELSE IF d.t = "list" /\ key.k = "idx" /\ 0 <= key.v /\ key.v < Len(d.items)
    THEN [found |-> TRUE, data |-> d.items[key.v + 1]]
    ELSE [found |-> FALSE, data |-> NOT_FOUND]

(***************************************************************************)
(* The documents the runner may find on disk.  A choice is <<>> for an     *)
(* absent key or <<v>> for a key holding v.                                *)
(***************************************************************************)
\* Bounds of the input space.
MaxExtraKeys == 2
MaxGears == 2
MaxIndex == 2
MaxPathLen == 3

Opt(k, choice) == IF choice = <<>> THEN <<>> ELSE <<KV(k, choice[1])>>

\* Keys no schema declares: extra1 .. extra<n>.
ExtraKeys(n) == [i \in 1..n |-> KV("extra" \o ToString(i), VInt(1))]

RECURSIVE SeqsUpTo(_, _)
SeqsUpTo(S, n) ==
    IF n = 0 THEN {<<>>}
    ELSE LET shorter == SeqsUpTo(S, n - 1)
         IN  shorter \cup {Append(q, x) : q \in shorter, x \in S}

EnabledChoices == {<<>>, <<VBool(TRUE)>>, <<VBool(FALSE)>>, <<VStr("no")>>}

\* --- config.yaml ---
GoodAIConfiguration ==
    VMap(<<KV("key", VStr("secret")), KV("model", VStr("m1")), KV("url", VNull)>>)
BadAIConfiguration == VMap(<<KV("key", VInt(70))>>)

AIMaps ==
    {VMap(Opt("enabled", en) \o Opt("enableUI", ui) \o Opt("provider", pr)
          \o Opt("configuration", cf) \o ExtraKeys(n)) :
        en \in EnabledChoices,
        ui \in {<<VBool(FALSE)>>, <<VStr("maybe")>>},
        pr \in {<<>>, <<VStr("ollama")>>, <<VStr("skynet")>>},
        cf \in {<<>>, <<GoodAIConfiguration>>, <<BadAIConfiguration>>},
        n \in 0..MaxExtraKeys}
GoodAI == VMap(<<KV("enabled", VBool(FALSE)), KV("enableUI", VBool(FALSE))>>)

MaxHeartRateFormulaValues ==
    {VStr("fox"), VMap(<<KV("2020-01-01", VInt(70))>>),
     VMap(<<KV("2020-01-01", VStr("fast"))>>), VInt(70), VList(<<>>), VNull}
GoodMaxHeartRateFormula == VStr("fox")

WeightValues == {VInt(70), VFloat(70, TRUE), VStr("70"), VStr("heavy"), VList(<<>>)}
WeightHistoryValues ==
    {VMap(<<>>)} \cup {VMap(<<KV("2020-01-01", w)>>) : w \in WeightValues}
        \cup {VMap(<<KV("2020-01-01", w), KV("2021-01-01", x)>>) :
                 w \in WeightValues, x \in {VInt(70), VStr("heavy")}}
GoodWeightHistory == VMap(<<KV("2020-01-01", VInt(70))>>)

GoodAppUrl == VStr("http://localhost:8080")
GoodLocale == VStr("en_US")

ConfigDoc(appUrl, locale, formula, weights, ai, n) ==
    VMap(<<
      KV("general", VMap(<<
          KV("appUrl", appUrl),
          KV("appSubTitle", VNull),
          KV("profilePictureUrl", VNull),
          KV("ntfyUrl", VStr("")),
          KV("athlete", VMap(<<
              KV("birthday", VStr("1990-01-01")),
              KV("maxHeartRateFormula", formula),
              KV("heartRateZones", VMap(<<
                  KV("mode", VStr("relative")),
                  KV("default", VMap(<<
                      KV("zone1", VMap(<<KV("from", VInt(0)), KV("to", VInt(70))>>)),
                      KV("zone2", VMap(<<KV("from", VInt(70)), KV("to", VNull)>>)) >>)) >>)),
              KV("weightHistory", weights),
              KV("ftpHistory", VList(<<VInt(70)>>)) >>)) >>)),
      KV("appearance", VMap(<<
          KV("locale", locale),
          KV("unitSystem", VStr("metric")),
          KV("timeFormat", VInt(24)),
          KV("dateFormat", VMap(<<KV("short", VStr("d-m-y")), KV("normal", VStr("d-m-Y"))>>)),
          KV("sportTypesSortingOrder", VList(<<>>)) >>)),
      KV("import", VMap(<<
          KV("numberOfNewActivitiesToProcessPerImport", VInt(70)),
          KV("sportTypesToImport", VList(<<>>)),
          KV("activityVisibilitiesToImport", VList(<<VStr("everyone")>>)),
          KV("skipActivitiesRecordedBefore", VNull),
          KV("activitiesToSkipDuringImport", VList(<<>>)) >>)),
      KV("metrics", VMap(<<
          KV("eddington", VList(<<VMap(<<
              KV("label", VStr("Ride")),
              KV("showInNavBar", VBool(TRUE)),
              KV("sportTypesToInclude", VList(<<VStr("Ride")>>)) >>)>>)),
          KV("consistencyChallenges", VList(<<>>)) >>)),
      KV("zwift", VMap(<<KV("level", VNull), KV("racingScore", VNull)>>)),
      KV("integrations", VMap(<<KV("ai", ai)>>)) >> \o ExtraKeys(n))

ConfigDocs ==
    {ConfigDoc(GoodAppUrl, GoodLocale, GoodMaxHeartRateFormula, GoodWeightHistory, ai, 0) :
        ai \in AIMaps}
    \cup {ConfigDoc(u, l, GoodMaxHeartRateFormula, GoodWeightHistory, GoodAI, n) :
        u \in {GoodAppUrl, VStr("not a url")}, l \in {GoodLocale, VStr("xx_XX")},
        n \in 0..MaxExtraKeys}
    \cup {ConfigDoc(GoodAppUrl, GoodLocale, f, w, GoodAI, 0) :
        f \in MaxHeartRateFormulaValues, w \in WeightHistoryValues}
    \cup {ConfigDoc(GoodAppUrl, GoodLocale, GoodMaxHeartRateFormula, GoodWeightHistory, ai, n) :
        ai \in {VStr("off"), VNull}, n \in 0..MaxExtraKeys}
    \cup {VNull, VList(<<>>)}

\* --- custom-gear.yaml ---
GearEntries ==
    {VMap(<<KV("tag", VStr("bike")), KV("label", VStr("Bike")), KV("isRetired", VBool(FALSE))>>),
     VMap(<<KV("tag", VStr("bike")), KV("isRetired", VStr("maybe"))>>)}

CustomGearDocs ==
    {VMap(Opt("enabled", en) \o Opt("hashtagPrefix", hp) \o Opt("customGears", cg)
          \o ExtraKeys(n)) :
        en \in EnabledChoices,
        hp \in {<<>>, <<VStr("sfs")>>, <<VInt(70)>>},
        cg \in {<<>>, <<VStr("none")>>} \cup {<<VList(q)>> : q \in SeqsUpTo(GearEntries, MaxGears)},
        n \in 0..MaxExtraKeys}
    \cup {VNull, VList(<<>>)}

\* --- gear-maintenance.yaml ---
GoodComponent ==
    VMap(<<KV("tag", VStr("chain")), KV("label", VStr("Chain")), KV("imgSrc", VNull),
           KV("attachedTo", VList(<<VStr("g1")>>)),
           KV("maintenance", VList(<<VMap(<<
               KV("tag", VStr("lube")), KV("label", VStr("Lube")),
               KV("interval", VMap(<<KV("value", VInt(70)), KV("unit", VStr("km"))>>)) >>)>>)) >>)
BadComponent == VMap(<<KV("tag", VStr("chain")), KV("maintenance", VList(<<VNull>>))>>)

GearMaintenanceDocs ==
    {VMap(Opt("enabled", en) \o Opt("hashtagPrefix", hp) \o <<KV("components", VList(cs))>>
          \o <<KV("gears", VList(gs))>> \o ExtraKeys(n)) :
        en \in {<<>>, <<VBool(TRUE)>>, <<VBool(FALSE)>>},
        hp \in {<<>>, <<VStr("sfs")>>},
        cs \in {<<>>, <<GoodComponent>>, <<GoodComponent, BadComponent>>},
        gs \in {<<>>, <<VMap(<<KV("gearId", VStr("g1")), KV("imgSrc", VNull)>>)>>,
                <<VMap(<<KV("gearId", VStr("g1"))>>)>>},
        n \in 0..MaxExtraKeys}

\* The arguments of the three calls of __main__, in order.
FILES == <<"config.yaml", "custom-gear.yaml", "gear-maintenance.yaml">>
MODELS == <<ConfigModel, CustomGearModel, GearMaintenanceModel>>
Docs(f) == CASE f = 1 -> ConfigDocs [] f = 2 -> CustomGearDocs [] f = 3 -> GearMaintenanceDocs

(***************************************************************************)
(* The runner.                                                             *)
(*   pc          where the script is: "main" (about to call                *)
(*               validate_yaml_config for FILES[file]), "validate",        *)
(*               "loop" (head of the loop of print_friendly_errors),       *)
(*               "get_value" (in the loop of get_value_by_path), "block"   *)
(*               (printing the block of errors[err_i]), "exited"           *)
(*               (sys.exit), "traceback" (an uncaught exception),          *)
(*               "finished" (past the last statement)                      *)
(*   open_docs   the open_docs argument of the calls                       *)
(*   parsed      the tree yaml.load returned (never written afterwards)    *)
(*   data        the object bound to `data`, which the validators see      *)
(*   opened      the arguments of the calls of webbrowser.open, in order   *)
(*   blocks      the blocks printed: (loc_str, msg, invalid value)         *)
(*   reports     per file processed: what was printed about it             *)
(*   exit_code   the exit status, -1 while the script runs                 *)
(***************************************************************************)
VARIABLES pc, file, open_docs, parsed, data, errors, err_i, printed_links,
          opened, blocks, path, key_i, cursor, invalid_value, reports, exit_code

vars == <<pc, file, open_docs, parsed, data, errors, err_i, printed_links,
          opened, blocks, path, key_i, cursor, invalid_value, reports, exit_code>>

Report(outcome, n) == [file |-> FILES[file], outcome |-> outcome, violations |-> n]

\* The state at the first statement of __main__.  open_docs is the argument
\* of validate_yaml_config (__main__ passes False); a run has one value.
Init ==
    /\ pc = "main"
    /\ file = 1
    /\ open_docs \in BOOLEAN
    /\ parsed = VNull
    /\ data = VNull
    /\ errors = <<>>
    /\ err_i = 1
    /\ printed_links = {}
    /\ opened = <<>>
    /\ blocks = <<>>
    /\ path = <<>>
    /\ key_i = 1
    /\ cursor = VNull
    /\ invalid_value = VNull
    /\ reports = <<>>
    /\ exit_code = -1

\* sys.exit() without a status: the run ends with status 0.
sys_exit_no_status(outcome, n) ==
    /\ pc' = "exited"
    /\ exit_code' = 0
    /\ reports' = Append(reports, Report(outcome, n))

\* sys.exit(1)
sys_exit(outcome, n) ==
    /\ pc' = "exited"
    /\ exit_code' = 1
    /\ reports' = Append(reports, Report(outcome, n))

\* validate_yaml_config: the file does not exist.
FileNotFound ==
    /\ pc = "main"
    /\ sys_exit("File not found", 0)
    /\ UNCHANGED <<file, open_docs, parsed, data, errors, err_i, printed_links,
                   opened, blocks, path, key_i, cursor, invalid_value>>

\* validate_yaml_config: yaml.load raises on a file that is no YAML document;
\* nothing catches it.
YamlLoadRaises ==
    /\ pc = "main"
    /\ pc' = "traceback"
    /\ exit_code' = 1
    /\ reports' = Append(reports, Report("yaml.load raised", 0))
    /\ UNCHANGED <<file, open_docs, parsed, data, errors, err_i, printed_links,
                   opened, blocks, path, key_i, cursor, invalid_value>>

\* validate_yaml_config: data = yaml.load(f)
YamlLoad ==
    /\ pc = "main"
    /\ \E doc \in Docs(file) :
          /\ parsed' = doc
          /\ data' = doc
    /\ pc' = "validate"
    /\ UNCHANGED <<file, open_docs, errors, err_i, printed_links, opened, blocks,
                   path, key_i, cursor, invalid_value, reports, exit_code>>

\* model_class.model_validate(data) returns: "<file> is valid!", and
\* __main__ goes on to its next call, or ends.
ModelValid ==
    /\ pc = "validate"
    /\ LET r == Validate(MODELS[file], data, <<>>) IN
          /\ r.exc = "" /\ r.errs = <<>>
          /\ data' = r.data
    /\ reports' = Append(reports, Report("is valid!", 0))
    /\ IF file < Len(FILES)
       THEN /\ file' = file + 1
            /\ pc' = "main"
            /\ exit_code' = exit_code
       ELSE /\ file' = file
            /\ pc' = "finished"
            /\ exit_code' = 0
    /\ UNCHANGED <<open_docs, parsed, errors, err_i, printed_links, opened, blocks,
                   path, key_i, cursor, invalid_value>>

\* model_validate raises a ValidationError: "<file> has errors!", and
\* print_friendly_errors(e.errors(), data, ...) begins.
ModelInvalid ==
    /\ pc = "validate"
    /\ LET r == Validate(MODELS[file], data, <<>>) IN
          /\ r.exc = "" /\ r.errs # <<>>
          /\ data' = r.data
          /\ errors' = r.errs
    /\ err_i' = 1
    /\ printed_links' = {}
    /\ pc' = "loop"
    /\ UNCHANGED <<file, open_docs, parsed, opened, blocks, path, key_i, cursor,
                   invalid_value, reports, exit_code>>

\* model_validate raises an exception without errors(): print(str(e)) and
\* sys.exit(1).
ModelRaises ==
    /\ pc = "validate"
    /\ LET r == Validate(MODELS[file], data, <<>>) IN
          /\ r.exc # ""
          /\ data' = r.data
          /\ sys_exit(r.exc, 0)
    /\ UNCHANGED <<file, open_docs, parsed, errors, err_i, printed_links, opened,
                   blocks, path, key_i, cursor, invalid_value>>

\* print_friendly_errors: the next err; get_value_by_path(original_data,
\* loc_path) is called.
NextError ==
    /\ pc = "loop"
    /\ err_i <= Len(errors)
    /\ path' = errors[err_i].loc
    /\ key_i' = 1
    /\ cursor' = data
    /\ pc' = "get_value"
    /\ UNCHANGED <<file, open_docs, parsed, data, errors, err_i, printed_links,
                   opened, blocks, invalid_value, reports, exit_code>>

\* get_value_by_path: one iteration of `for key in path`.
get_value_by_path_loop ==
    /\ pc = "get_value"
    /\ key_i <= Len(path)
    /\ LET r == get_value_by_path_step(cursor, path[key_i]) IN
          IF r.found
          THEN /\ cursor' = r.data
               /\ key_i' = key_i + 1
               /\ UNCHANGED <<pc, invalid_value>>
          ELSE /\ invalid_value' = r.data
               /\ pc' = "block"
               /\ UNCHANGED <<cursor, key_i>>
    /\ UNCHANGED <<file, open_docs, parsed, data, errors, err_i, printed_links,
                   opened, blocks, path, reports, exit_code>>

\* get_value_by_path: `return data` after the loop.
get_value_by_path_return ==
    /\ pc = "get_value"
    /\ key_i > Len(path)
    /\ invalid_value' = cursor
    /\ pc' = "block"
    /\ UNCHANGED <<file, open_docs, parsed, data, errors, err_i, printed_links,
                   opened, blocks, path, key_i, cursor, reports, exit_code>>

loc_str == LocStr(errors[err_i].loc)
field_info == loc_str \in DOMAIN FIELD_HELP
doc_url == DOC_BASE_URL \o FIELD_HELP[loc_str]

\* The condition without `doc_url not in printed_links`.
ShouldOpen_no_dedup == field_info /\ open_docs

\* `if auto_open_docs and doc_url not in printed_links`
ShouldOpen == field_info /\ open_docs /\ doc_url \notin printed_links

PrintedBlock == [loc_str |-> loc_str, msg |-> errors[err_i].msg, value |-> invalid_value]

\* print_friendly_errors: the block of one err, without a call of
\* webbrowser.open.
PrintBlock ==
    /\ pc = "block"
    /\ ~ShouldOpen
    /\ blocks' = Append(blocks, PrintedBlock)
    /\ err_i' = err_i + 1
    /\ pc' = "loop"
    /\ UNCHANGED <<file, open_docs, parsed, data, errors, printed_links, opened,
                   path, key_i, cursor, invalid_value, reports, exit_code>>

\* print_friendly_errors: the block of one err; webbrowser.open(doc_url)
\* returns.
PrintBlockAndOpen ==
    /\ pc = "block"
    /\ ShouldOpen
    /\ opened' = Append(opened, doc_url)
    /\ printed_links' = printed_links \cup {doc_url}
    /\ blocks' = Append(blocks, PrintedBlock)
    /\ err_i' = err_i + 1
    /\ pc' = "loop"
    /\ UNCHANGED <<file, open_docs, parsed, data, errors, path, key_i, cursor,
                   invalid_value, reports, exit_code>>

\* print_friendly_errors: webbrowser.open(doc_url) raises.  The call is made
\* in the except clause of validate_yaml_config and nothing catches what it
\* raises: the block stays without its line break and the script dies.
WebbrowserOpenRaises ==
    /\ pc = "block"
    /\ ShouldOpen
    /\ opened' = Append(opened, doc_url)
    /\ blocks' = Append(blocks, PrintedBlock)
    /\ pc' = "traceback"
    /\ exit_code' = 1
    /\ reports' = Append(reports, Report("webbrowser.open raised", Len(errors)))
    /\ UNCHANGED <<file, open_docs, parsed, data, errors, err_i, printed_links,
                   path, key_i, cursor, invalid_value>>

\* print_friendly_errors returns; validate_yaml_config calls sys.exit(1).
ExitAfterErrors ==
    /\ pc = "loop"
    /\ err_i > Len(errors)
    /\ sys_exit("has errors!", Len(errors))
    /\ UNCHANGED <<file, open_docs, parsed, data, errors, err_i, printed_links,
                   opened, blocks, path, key_i, cursor, invalid_value>>

Next ==
    \/ FileNotFound
    \/ YamlLoadRaises
    \/ YamlLoad
    \/ ModelValid
    \/ ModelInvalid
    \/ ModelRaises
    \/ NextError
    \/ get_value_by_path_loop
    \/ get_value_by_path_return
    \/ PrintBlock
    \/ PrintBlockAndOpen
    \/ WebbrowserOpenRaises
    \/ ExitAfterErrors

Spec == Init /\ [][Next]_vars

(***************************************************************************)
(* get_value_by_path on its own: any small tree, any short path of field   *)
(* names and indexes (negative and out of range included).                 *)
(***************************************************************************)
PathDocs ==
    {VMap(<<KV("a", VList(<<VStr("x"), VMap(<<KV("b", VInt(1))>>)>>)), KV("b", VStr("y"))>>),
     VList(<<VMap(<<KV("a", VNull)>>), VList(<<VInt(1), VStr("x")>>)>>),
     VMap(<<KV("0", VMap(<<KV("a", VList(<<>>))>>))>>),
     VStr("ab"),
     VList(<<>>)}

PathSegments == {SegName("a"), SegName("b"), SegName("0")} \cup {SegIdx(i) : i \in -1..MaxIndex}

InitPath ==
    /\ pc = "get_value"
    /\ file = 1
    /\ open_docs = FALSE
    /\ parsed \in PathDocs
    /\ data = parsed
    /\ errors = <<>>
    /\ err_i = 1
    /\ printed_links = {}
    /\ opened = <<>>
    /\ blocks = <<>>
    /\ path \in SeqsUpTo(PathSegments, MaxPathLen)
    /\ key_i = 1
    /\ cursor = data
    /\ invalid_value = VNull
    /\ reports = <<>>
    /\ exit_code = -1

NextPath == get_value_by_path_loop \/ get_value_by_path_return

SpecPath == InitPath /\ [][NextPath]_vars

(***************************************************************************)
(* Vocabulary of the properties                                            *)
(***************************************************************************)
Last(q) == q[Len(q)]
IsPrefix(p, q) == Len(p) <= Len(q) /\ SubSeq(q, 1, Len(p)) = p
Names(q) == [i \in 1..Len(q) |-> SegName(q[i])]

\* A segment cannot be followed from a node: the key is missing from a map,
\* the index is negative or out of range, a name is applied to a sequence,
\* or the node is a scalar.
SegmentFails(node, seg) ==
    \/ node.t = "map" /\ ~(seg.k = "name" /\ seg.v \in Keys(node))
    \/ node.t = "list" /\ seg.k = "idx" /\ (seg.v < 0 \/ seg.v >= Len(node.items))
    \/ node.t = "list" /\ seg.k = "name"
    \/ node.t \notin {"map", "list"}

Child(node, seg) == IF node.t = "map" THEN Get(node, seg.v) ELSE node.items[seg.v + 1]

\* The node a path leads to, the sentinel from its first failing segment on.
RECURSIVE NodeAt(_, _)
NodeAt(node, p) ==
    IF p = <<>> THEN node
    ELSE IF SegmentFails(node, Head(p)) THEN NOT_FOUND
    ELSE NodeAt(Child(node, Head(p)), Tail(p))

RECURSIVE Resolves(_, _)
Resolves(node, p) ==
    p = <<>> \/ (~SegmentFails(node, Head(p)) /\ Resolves(Child(node, Head(p)), Tail(p)))

\* `errors` holds what the validation of `parsed` against MODELS[CheckedFile]
\* produced (nothing when it passed, or when it raised something else).
Checked ==
    \/ pc \in {"loop", "get_value", "block", "finished"}
    \/ pc = "main" /\ file > 1
    \/ pc \in {"exited", "traceback"}
          /\ Last(reports).outcome \in {"has errors!", "AttributeError", "webbrowser.open raised"}
CheckedFile == IF pc = "main" THEN file - 1 ELSE file

AIPath == Names(<<"integrations", "ai">>)

\* The Conditional-Objects of the checked document that are maps: where
\* they are, the map, and the fields their gate gates.
ConditionalObjects ==
    IF ~Checked THEN {}
    ELSE IF CheckedFile = 1
    THEN (IF Resolves(parsed, AIPath) /\ NodeAt(parsed, AIPath).t = "map"
          THEN {[at |-> AIPath, map |-> NodeAt(parsed, AIPath),
                 gated |-> {"provider", "configuration"}]}
          ELSE {})
    ELSE IF CheckedFile = 2
    THEN (IF parsed.t = "map"
          THEN {[at |-> <<>>, map |-> parsed, gated |-> {"hashtagPrefix", "customGears"}]}
          ELSE {})
    ELSE {}

GateOff(m) == ~HasKey(m, "enabled") \/ Get(m, "enabled") = VBool(FALSE)
GateOn(m) == HasKey(m, "enabled") /\ Get(m, "enabled") = VBool(TRUE)

ErrorsUnder(p) == {i \in DOMAIN errors : IsPrefix(p, errors[i].loc)}

\* The errors that report field g of the object at p as missing: pydantic's
\* own, or the ValueError of check_required_if_enabled about g.
MissingReports(p, g) ==
    {i \in DOMAIN errors :
        \/ errors[i].type = "missing" /\ errors[i].loc = p \o <<SegName(g)>>
        \/ /\ errors[i].type = "value_error"
           /\ IsPrefix(p, errors[i].loc)
           /\ errors[i].msg \in {g \o " is required when AI integration is enabled",
                                 g \o " is required when custom gear is enabled"}}

(***************************************************************************)
(* Properties                                                              *)
(***************************************************************************)

\* C1: when the gate `enabled` of a Conditional-Object is false or absent,
\* validation produces no violation at (or under) a gated field, whatever
\* the gated fields hold.
C1_DisabledGateSilent ==
    \A o \in ConditionalObjects :
        GateOff(o.map) =>
            \A g \in o.gated : ErrorsUnder(o.at \o <<SegName(g)>>) = {}

\* C2: with enabled = true, an absent gated field is reported missing
\* exactly once, and at the path of the field itself.
C2_MissingGatedAtFieldPath ==
    \A o \in ConditionalObjects :
        GateOn(o.map) =>
            \A g \in o.gated \ Keys(o.map) :
                /\ Cardinality(MissingReports(o.at, g)) = 1
                /\ \A i \in MissingReports(o.at, g) : errors[i].loc = o.at \o <<SegName(g)>>

\* C3: one pass reports every violation: for an AIIntegration with
\* enabled = true every absent gated field is reported, also when both are
\* absent and when another field of the object is in error.
C3_AllViolationsReported ==
    \A o \in ConditionalObjects :
        (o.at = AIPath /\ GateOn(o.map)) =>
            \A g \in o.gated \ Keys(o.map) : MissingReports(o.at, g) # {}

\* C4: the tree handed to print_friendly_errors is the tree as parsed.
C4_DocumentUnchanged ==
    pc \in {"loop", "get_value", "block"} => data = parsed

\* The union-typed nodes of the checked config.yaml.
AthletePath == Names(<<"general", "athlete">>)
UnionNodes ==
    IF ~(Checked /\ CheckedFile = 1 /\ Resolves(parsed, AthletePath)) THEN {}
    ELSE LET formula == AthletePath \o <<SegName("maxHeartRateFormula")>>
             weights == AthletePath \o <<SegName("weightHistory")>>
         IN  (IF Resolves(parsed, formula) THEN {formula} ELSE {})
             \cup (IF Resolves(parsed, weights) /\ NodeAt(parsed, weights).t = "map"
                   THEN {weights \o <<SegName(k)>> : k \in Keys(NodeAt(parsed, weights))}
                   ELSE {})

\* C5: a union node has no violation, or exactly one, at its own path.
C5_OneViolationPerUnion ==
    \A u \in UnionNodes :
        /\ Cardinality(ErrorsUnder(u)) <= 1
        /\ \A i \in ErrorsUnder(u) : errors[i].loc = u

\* The closed objects of the checked document that every document of the
\* model reaches: where they are and their schema.
ClosedObjects ==
    IF ~Checked THEN {}
    ELSE {o \in (CASE CheckedFile = 1 ->
                        {[at |-> <<>>, s |-> ConfigModel],
                         [at |-> Names(<<"integrations">>), s |-> Integrations],
                         [at |-> AIPath, s |-> AIIntegration]}
                   [] CheckedFile = 2 -> {[at |-> <<>>, s |-> CustomGearModel]}
                   [] CheckedFile = 3 -> {[at |-> <<>>, s |-> GearMaintenanceModel]}) :
             Resolves(parsed, o.at) /\ NodeAt(parsed, o.at).t = "map"}

\* C6: every key of a closed object that is no field of its schema has
\* exactly one unexpected-field violation, at the path of that key.
C6_UnexpectedFieldReported ==
    \A o \in ClosedObjects :
        \A k \in Keys(NodeAt(parsed, o.at)) \ Aliases(o.s) :
            Cardinality({i \in DOMAIN errors :
                            /\ errors[i].type = "extra_forbidden"
                            /\ errors[i].loc = o.at \o <<SegName(k)>>}) = 1

\* C7: webbrowser.open is called at most once per link in a run, and never
\* with open_docs off.
C7_OpenedOncePerLink ==
    /\ \A i, j \in DOMAIN opened : opened[i] = opened[j] => i = j
    /\ ~open_docs => opened = <<>>

\* Two violations with the same documentation link have been rendered and
\* the link was opened.
C7_Witness ==
    /\ open_docs
    /\ Len(blocks) >= 2
    /\ blocks[1].loc_str \in DOMAIN FIELD_HELP
    /\ blocks[2].loc_str \in DOMAIN FIELD_HELP
    /\ FIELD_HELP[blocks[1].loc_str] = FIELD_HELP[blocks[2].loc_str]
    /\ opened # <<>>

\* C8: a webbrowser.open that raises changes nothing: every violation is
\* rendered and the run ends as a validation failure, through sys.exit(1).
C8_OpenFailureSwallowed ==
    (pc \in {"exited", "traceback"} /\ errors # <<>>) =>
        /\ pc = "exited"
        /\ Len(blocks) = Len(errors)
        /\ Last(reports).outcome = "has errors!"

\* C9: get_value_by_path returns the node the path leads to, the sentinel
\* from the first segment that cannot be followed, the document for the
\* empty path, and raises nothing.
C9_ValueByPath ==
    pc = "block" =>
        /\ invalid_value = NodeAt(data, path)
        /\ Resolves(data, path) <=> key_i > Len(path)
        /\ path = <<>> => invalid_value = data

\* The sentinel comes from a negative index into a sequence reached through
\* an earlier segment.
C9_Witness ==
    /\ pc = "block"
    /\ key_i > 1 /\ key_i <= Len(path)
    /\ cursor.t = "list" /\ cursor.items # <<>>
    /\ path[key_i].k = "idx" /\ path[key_i].v < 0
    /\ invalid_value = NOT_FOUND

\* C10: the documents are processed in the order of FILES; the first one
\* that is missing or does not validate ends the run with status 1 before
\* any later document is touched; the run ends without status 1 exactly
\* when all three were reported valid.
C10_RunnerOrder ==
    /\ \A i \in DOMAIN reports : reports[i].file = FILES[i]
    /\ \A i \in 1..(Len(reports) - 1) : reports[i].outcome = "is valid!"
    /\ pc \in {"exited", "traceback"} =>
          /\ exit_code = 1
          /\ Last(reports).outcome # "is valid!"
          /\ Len(reports) = file
          /\ ~ENABLED Next
    /\ pc \notin {"exited", "traceback", "finished"} =>
          /\ exit_code = -1
          /\ Len(reports) = file - 1
    /\ pc = "finished" =>
          /\ exit_code = 0
          /\ Len(reports) = Len(FILES)
          /\ \A i \in DOMAIN reports :
                reports[i].outcome = "is valid!" /\ reports[i].violations = 0
          /\ ~ENABLED Next
    /\ (Checked /\ pc \in {"main", "finished"}) =>
          Validate(MODELS[CheckedFile], parsed, <<>>).errs = <<>>
    /\ (pc = "exited" /\ Last(reports).outcome = "has errors!") =>
          Last(reports).violations > 0

\* config.yaml was valid, custom-gear.yaml was not: the run is over and
\* gear-maintenance.yaml was never reached.
C10_Witness ==
    /\ pc = "exited"
    /\ Len(reports) = 2
    /\ reports[2].outcome = "has errors!"

====
